---------------------------- MODULE Spec2Model ----------------------------
(***************************************************************************)
(* A model of the planner repository's connection handshake:               *)
(*   - the OAuth callback handler   (components/GoogleCalendar/             *)
(*                                   OAuthCallback.tsx)                     *)
(*   - the connection registry      (class ComposioService)                 *)
(*   - the API server's setup-connection route and its two maps             *)
(* Strings that the code inspects character by character (user emails) are  *)
(* sequences of one-character strings; all other strings are TLA+ strings.  *)
(***************************************************************************)
EXTENDS Integers, Sequences, FiniteSets, TLC

(***************************************************************************)
(* Bounds of the model.                                                     *)
(***************************************************************************)
\* Number of clock steps the registry model lets Date.now() advance.
MaxTicks == 2
\* Number of registry operations in one behaviour of the registry model.
MaxOps == 3
\* Number of HTTP requests the server model accepts in one behaviour.
MaxRequests == 3

(***************************************************************************)
(* Values.                                                                  *)
(***************************************************************************)
\* JavaScript's undefined, where a record is expected.
Undefined == [undefined |-> TRUE]

\* An absent optional string (refreshToken?: string).
UndefinedStr == "<undefined>"

\* The user emails of the model.  <<>> is the empty string; as the value of
\* state.user?.email it also stands for an absent user or email (both falsy).
EmptyEmail == <<>>
EmailAB == <<"a", "@", "b">>
EmailAdotB == <<"A", ".", "b">>
Emails == {EmailAB, EmailAdotB}

(***************************************************************************)
(* A JavaScript Map, as the sequence of its entries in insertion order.     *)
(***************************************************************************)
MapHas(m, k) == \E i \in 1..Len(m) : m[i].key = k

\* Map.prototype.get: the value of the first entry with the key, or undefined.
MapGet(m, k) ==
    IF MapHas(m, k)
    THEN m[CHOOSE i \in 1..Len(m) : m[i].key = k /\ \A j \in 1..(i-1) : m[j].key # k].value
    ELSE Undefined

\* Map.prototype.set: the value of an existing key is replaced in place,
\* a new key is appended.
MapSet(m, k, v) ==
    IF MapHas(m, k)
    THEN [i \in 1..Len(m) |-> IF m[i].key = k THEN [key |-> k, value |-> v] ELSE m[i]]
    ELSE Append(m, [key |-> k, value |-> v])

\* The number of entries stored under key k.
MapCount(m, k) == Cardinality({i \in 1..Len(m) : m[i].key = k})

(***************************************************************************)
(* userEmail.replace(/[^a-zA-Z0-9]/g, '_').toLowerCase()                    *)
(***************************************************************************)
LowerLetters == <<"a", "b", "c", "d", "e", "f", "g", "h", "i", "j", "k", "l", "m",
                  "n", "o", "p", "q", "r", "s", "t", "u", "v", "w", "x", "y", "z">>
UpperLetters == <<"A", "B", "C", "D", "E", "F", "G", "H", "I", "J", "K", "L", "M",
                  "N", "O", "P", "Q", "R", "S", "T", "U", "V", "W", "X", "Y", "Z">>
Digits == <<"0", "1", "2", "3", "4", "5", "6", "7", "8", "9">>

Range(f) == {f[i] : i \in DOMAIN f}

IsAlphaNumeric(c) == c \in Range(LowerLetters) \cup Range(UpperLetters) \cup Range(Digits)

\* A sanitizer step that keeps the case of the character.
KeepCase(c) == c

ToLowerCase(c) ==
    IF c \in Range(UpperLetters)
    THEN LowerLetters[CHOOSE i \in DOMAIN UpperLetters : UpperLetters[i] = c]
    ELSE c

EntityIdOf(userEmail) ==
    [i \in 1..Len(userEmail) |->
        ToLowerCase(IF IsAlphaNumeric(userEmail[i]) THEN userEmail[i] ELSE "_")]

EntityIds == {EntityIdOf(e) : e \in Emails}

VARIABLES
    \* ---- OAuthCallback component
    url,            \* window.location.href: the query parameters of the redirect
    appUserEmail,   \* state.user?.email of the app context
    cbPc,           \* position of handleOAuthCallback
    callbackState,  \* the component's useState value
    statusLog,      \* every status passed to useState/setCallbackState, in order
    exchangeCalls,  \* calls of oauthService.exchangeCodeForTokens
    exchangeOutcome, \* "none", "resolved" or "rejected": how the awaited exchange ended
    bridgeCalls,    \* calls of googleCalendarService.connectToServerIntegration
    bridgeReq,      \* the server request the bridge call is waiting for, 0 if none
    bridgeOutcome,  \* "none", "ok" (console.log) or "failed" (console.warn)
    chatMessages,   \* ADD_CHAT_MESSAGE actions dispatched
    redirectDelay,  \* delay of the scheduled setTimeout, 0 when none
    \* ---- API server
    serverConnections,   \* const userConnections = new Map()  (userEmail -> data)
    userEntities,        \* const userEntities = new Map()     (userEmail -> entityId)
    requests,            \* the HTTP requests, each with its handler's position
    platformConnections, \* entities with a googlecalendar connection on the platform
    \* ---- ComposioService (the connection registry)
    userConnections,     \* private userConnections: Map<string, UserConnection>
    now,                 \* Date.now(), in milliseconds
    last,                \* the last registry call: its name, arguments and result
    ops                  \* number of registry calls made so far

cbVars == <<url, appUserEmail, cbPc, callbackState, statusLog, exchangeCalls, exchangeOutcome,
            bridgeCalls, bridgeReq, bridgeOutcome, chatMessages, redirectDelay>>

serverVars == <<serverConnections, userEntities, requests, platformConnections>>

registryVars == <<userConnections, now, last, ops>>

vars == <<cbVars, serverVars, registryVars>>


(***************************************************************************)
(*                       THE OAUTH CALLBACK COMPONENT                       *)
(***************************************************************************)
\* The redirect URLs of the model: each query parameter is absent or present.
Absent == "<absent>"
Urls == [code : {Absent, "ABC"}, state : {Absent, "XYZ"}]

\* A null callback result.
Null == [null |-> TRUE]

\* Delays of the redirect back to '/'.
SuccessRedirectMs == 2000
ErrorRedirectMs == 5000

\* oauthService.handleCallback(currentUrl): the code and state query
\* parameters of the redirect, or null when either is missing.
HandleCallback(currentUrl) ==
    IF currentUrl.code = Absent \/ currentUrl.state = Absent
    THEN Null
    ELSE [code |-> currentUrl.code, state |-> currentUrl.state]

\* An idle HTTP request slot of the server.
\* entityId, connectionData, connectionStatus, tools and output are the
\* handler's locals; llm lists the generateText calls the handler has made,
\* initiated counts its initiateConnection calls, found notes what the
\* platform held when its getConnection settled, wrote is the record of its
\* last userConnections.set.
FreeRequest ==
    [kind |-> "none", userEmail |-> EmptyEmail, pc |-> "free",
     entityId |-> <<>>, http |-> 0, body |-> Undefined,
     message |-> "", connectionData |-> Undefined, connectionStatus |-> "none",
     tools |-> 0, output |-> Undefined, llm |-> <<>>,
     initiated |-> 0, found |-> "unknown", wrote |-> Undefined]

\* The catch block that falls through to the success code below it.
CatchBlockThenSuccess(details, sets) ==
    /\ callbackState' = [status |-> "success", message |-> "Authentication successful!",
                         details |-> "Google Calendar is now connected"]
    /\ statusLog' = statusLog \o sets \o <<"error", "success">>
    /\ chatMessages' = Append(Append(chatMessages, "error"), "success")
    /\ redirectDelay' = SuccessRedirectMs
    /\ cbPc' = "done"

\* A catch block that only logs: no status, no chat message, no redirect.
CatchBlockLogOnly(details, sets) ==
    /\ callbackState' = [callbackState EXCEPT !.status = "processing"]
    /\ statusLog' = statusLog \o sets
    /\ cbPc' = "done"
    /\ UNCHANGED <<chatMessages, redirectDelay>>

\* The catch block of handleOAuthCallback; `sets` are the statuses the try
\* block has set in the same synchronous run before it threw.
CatchBlock(details, sets) ==
    /\ callbackState' = [status |-> "error", message |-> "Authentication failed",
                         details |-> details]
    /\ statusLog' = statusLog \o sets \o <<"error">>
    /\ chatMessages' = Append(chatMessages, "error")
    /\ redirectDelay' = ErrorRedirectMs
    /\ cbPc' = "done"

\* The end of the try block: success state, chat message, short redirect.
SuccessBlock(sets) ==
    /\ callbackState' = [status |-> "success", message |-> "Authentication successful!",
                         details |-> "Google Calendar is now connected"]
    /\ statusLog' = statusLog \o sets \o <<"success">>
    /\ chatMessages' = Append(chatMessages, "success")
    /\ redirectDelay' = SuccessRedirectMs
    /\ cbPc' = "done"

\* The first synchronous run without the null check: the exchange is called
\* with whatever the parse returned.
HandleOAuthCallbackNoCheck ==
    /\ cbPc = "mounted"
    /\ callbackState' = [status |-> "processing",
                         message |-> "Exchanging authorization code for access token...",
                         details |-> ""]
    /\ statusLog' = statusLog \o <<"processing", "processing">>
    /\ exchangeCalls' = exchangeCalls + 1
    /\ cbPc' = "exchanging"
    /\ UNCHANGED <<url, appUserEmail, exchangeOutcome, bridgeCalls, bridgeReq, bridgeOutcome,
                   chatMessages, redirectDelay, serverVars, registryVars>>

\* useEffect -> handleOAuthCallback, up to its first await.
HandleOAuthCallback ==
    /\ cbPc = "mounted"
    /\ LET callbackResult == HandleCallback(url) IN
        IF callbackResult = Null
        THEN /\ CatchBlock("Failed to process OAuth callback", <<"processing">>)
             /\ UNCHANGED exchangeCalls
        ELSE /\ callbackState' = [status |-> "processing",
                                  message |-> "Exchanging authorization code for access token...",
                                  details |-> ""]
             /\ statusLog' = statusLog \o <<"processing", "processing">>
             /\ exchangeCalls' = exchangeCalls + 1
             /\ cbPc' = "exchanging"
             /\ UNCHANGED <<chatMessages, redirectDelay>>
    /\ UNCHANGED <<url, appUserEmail, exchangeOutcome, bridgeCalls, bridgeReq, bridgeOutcome,
                   serverVars, registryVars>>

\* googleCalendarService.connectToServerIntegration(userEmail): POST
\* /api/composio/setup-connection {userEmail}; the request reaches the server,
\* or the network fails and it never does.
ConnectToServerIntegration(userEmail) ==
    \/ \E r \in 1..MaxRequests :
        /\ requests[r].pc = "free"
        /\ \A q \in 1..(r-1) : requests[q].pc # "free"
        /\ requests' = [requests EXCEPT ![r] =
                           [FreeRequest EXCEPT !.kind = "setup", !.userEmail = userEmail,
                                               !.pc = "received"]]
        /\ bridgeReq' = r
    \/ /\ bridgeReq' = 0
       /\ UNCHANGED requests

\* The token exchange failed and is called again.
ExchangeRejectedRetry ==
    /\ cbPc = "exchanging"
    /\ exchangeOutcome' = "rejected"
    /\ exchangeCalls' = exchangeCalls + 1
    /\ UNCHANGED <<url, appUserEmail, cbPc, callbackState, statusLog, bridgeCalls, bridgeReq,
                   bridgeOutcome, chatMessages, redirectDelay, serverVars, registryVars>>

\* await oauthService.exchangeCodeForTokens(code, stateParam) threw.
ExchangeRejected ==
    /\ cbPc = "exchanging"
    /\ exchangeOutcome' = "rejected"
    /\ CatchBlock("TokenExchangeFailed", <<>>)
    /\ UNCHANGED <<url, appUserEmail, exchangeCalls, bridgeCalls, bridgeReq, bridgeOutcome,
                   serverVars, registryVars>>

\* await oauthService.exchangeCodeForTokens(code, stateParam) returned tokens
\* (the handler never reads them).
ExchangeResolved ==
    /\ cbPc = "exchanging"
    /\ exchangeOutcome' = "resolved"
    /\ IF appUserEmail # EmptyEmail
       THEN /\ callbackState' = [status |-> "processing",
                                 message |-> "Setting up AI integration...", details |-> ""]
            /\ statusLog' = Append(statusLog, "processing")
            /\ bridgeCalls' = bridgeCalls + 1
            /\ ConnectToServerIntegration(appUserEmail)
            /\ cbPc' = "bridging"
            /\ UNCHANGED <<chatMessages, redirectDelay>>
       ELSE /\ SuccessBlock(<<"processing">>)
            /\ UNCHANGED <<bridgeCalls, bridgeReq, requests>>
    /\ UNCHANGED <<url, appUserEmail, exchangeCalls, bridgeOutcome,
                   serverConnections, userEntities, platformConnections, registryVars>>

\* The bridge call's promise resolves: the server answered with success.
BridgeResolved ==
    /\ cbPc = "bridging"
    /\ bridgeReq # 0
    /\ requests[bridgeReq].pc = "done"
    /\ requests[bridgeReq].http = 200
    /\ bridgeOutcome' = "ok"
    /\ SuccessBlock(<<>>)
    /\ UNCHANGED <<url, appUserEmail, exchangeOutcome, exchangeCalls, bridgeCalls, bridgeReq,
                   serverVars, registryVars>>

\* A bridge failure that is not swallowed: it reaches the outer catch block.
BridgeRejectedFatal ==
    /\ cbPc = "bridging"
    /\ \/ bridgeReq = 0
       \/ /\ bridgeReq # 0
          /\ requests[bridgeReq].pc = "done"
          /\ requests[bridgeReq].http # 200
    /\ bridgeOutcome' = "failed"
    /\ CatchBlock("IntegrationSetupFailed", <<>>)
    /\ UNCHANGED <<url, appUserEmail, exchangeOutcome, exchangeCalls, bridgeCalls, bridgeReq,
                   serverVars, registryVars>>

\* The bridge call's promise rejects (network error or an error response):
\* the inner catch logs a warning and the flow goes on.
BridgeRejected ==
    /\ cbPc = "bridging"
    /\ \/ bridgeReq = 0
       \/ /\ bridgeReq # 0
          /\ requests[bridgeReq].pc = "done"
          /\ requests[bridgeReq].http # 200
    /\ bridgeOutcome' = "failed"
    /\ SuccessBlock(<<>>)
    /\ UNCHANGED <<url, appUserEmail, exchangeOutcome, exchangeCalls, bridgeCalls, bridgeReq,
                   serverVars, registryVars>>

\* The setTimeout callback: window.location.href = '/'.
RedirectTimer ==
    /\ cbPc = "done"
    /\ redirectDelay # 0
    /\ cbPc' = "redirected"
    /\ UNCHANGED <<url, appUserEmail, exchangeOutcome, callbackState, statusLog,
                   exchangeCalls, bridgeCalls,
                   bridgeReq, bridgeOutcome, chatMessages, redirectDelay, serverVars, registryVars>>

(***************************************************************************)
(*                     THE API SERVER: setup-connection                     *)
(***************************************************************************)
\* The id of the connection the platform already holds for an entity.
ExistingConnectionId(entityId) == [entity |-> entityId, n |-> 0]

\* The id of the connection that request r's initiateConnection creates.
InitiatedConnectionId(entityId, r) == [entity |-> entityId, n |-> r]

\* The record stored for a connection the platform already holds.
ActiveConnection(entityId) ==
    [entityId |-> entityId,
     connectionId |-> ExistingConnectionId(entityId),
     redirectUrl |-> Undefined,
     status |-> "active",
     stamp |-> "connectedAt"]

\* A pending record that leaves the redirect URL out.
PendingConnectionNoUrl(entityId, r) ==
    [entityId |-> entityId,
     connectionId |-> InitiatedConnectionId(entityId, r),
     redirectUrl |-> Undefined,
     status |-> "pending",
     stamp |-> "createdAt"]

\* The record stored for the connection that request r initiated.
PendingConnection(entityId, r) ==
    [entityId |-> entityId,
     connectionId |-> InitiatedConnectionId(entityId, r),
     redirectUrl |-> [redirect |-> InitiatedConnectionId(entityId, r)],
     status |-> "pending",
     stamp |-> "createdAt"]

\* res.status(code).json(body): the handler's request ends.
Reply(r, code, body) ==
    requests' = [requests EXCEPT ![r].pc = "done", ![r].http = code, ![r].body = body]

\* A route that derives the entity id without storing the entity mapping.
SetupConnectionRouteNoEntity(r) ==
    /\ requests[r].pc = "received"
    /\ requests[r].kind = "setup"
    /\ LET userEmail == requests[r].userEmail IN
        IF userEmail = EmptyEmail
        THEN Reply(r, 400, [success |-> FALSE, error |-> "userEmail is required"])
        ELSE requests' = [requests EXCEPT ![r].pc = "getEntity",
                                          ![r].entityId = EntityIdOf(userEmail)]
    /\ UNCHANGED <<cbVars, registryVars, serverConnections, userEntities, platformConnections>>

\* POST /api/composio/setup-connection, from the route's start to the first
\* await of setupUserConnectionIfNotExists.
SetupConnectionRoute(r) ==
    /\ requests[r].pc = "received"
    /\ requests[r].kind = "setup"
    /\ LET userEmail == requests[r].userEmail IN
        IF userEmail = EmptyEmail
        THEN /\ Reply(r, 400, [success |-> FALSE, error |-> "userEmail is required"])
             /\ UNCHANGED userEntities
        ELSE /\ userEntities' = MapSet(userEntities, userEmail, EntityIdOf(userEmail))
             /\ requests' = [requests EXCEPT ![r].pc = "getEntity",
                                             ![r].entityId = EntityIdOf(userEmail)]
    /\ UNCHANGED <<cbVars, registryVars, serverConnections, platformConnections>>

\* await toolset.client.getEntity(entityId) returned.
GetEntityResolved(r) ==
    /\ requests[r].pc = "getEntity"
    /\ requests' = [requests EXCEPT ![r].pc = "getConnection"]
    /\ UNCHANGED <<cbVars, registryVars, serverConnections, userEntities, platformConnections>>

\* await toolset.client.getEntity(entityId) threw: the outer catch rethrows
\* and the route answers 500.
GetEntityRejected(r) ==
    /\ requests[r].pc = "getEntity"
    /\ Reply(r, 500, [success |-> FALSE, error |-> "getEntity failed"])
    /\ UNCHANGED <<cbVars, registryVars, serverConnections, userEntities, platformConnections>>

\* await entity.getConnection({app: 'googlecalendar'}) returned a connection:
\* it is stored as active.
GetConnectionResolved(r) ==
    /\ requests[r].pc = "getConnection"
    /\ requests[r].entityId \in platformConnections
    /\ LET connectionData == ActiveConnection(requests[r].entityId) IN
        /\ serverConnections' =
              MapSet(serverConnections, requests[r].userEmail, connectionData)
        /\ requests' = [requests EXCEPT ![r].pc = "respond", ![r].found = "yes",
                                        ![r].wrote = connectionData]
    /\ UNCHANGED <<cbVars, registryVars, userEntities, platformConnections>>

\* await entity.getConnection(...) threw (no connection, or the call failed):
\* the inner catch goes on to initiate a new connection.
GetConnectionRejected(r) ==
    /\ requests[r].pc = "getConnection"
    /\ requests' = [requests EXCEPT
                       ![r].pc = "initiateConnection",
                       ![r].initiated = @ + 1,
                       ![r].found = IF requests[r].entityId \in platformConnections
                                    THEN "yes" ELSE "no"]
    /\ UNCHANGED <<cbVars, registryVars, serverConnections, userEntities, platformConnections>>

\* await entity.initiateConnection(...) returned: the new connection is
\* stored as pending, with its redirect URL.
InitiateConnectionResolved(r) ==
    /\ requests[r].pc = "initiateConnection"
    /\ LET connectionData == PendingConnection(requests[r].entityId, r) IN
        /\ serverConnections' =
              MapSet(serverConnections, requests[r].userEmail, connectionData)
        /\ requests' = [requests EXCEPT ![r].pc = "respond",
                                        ![r].wrote = connectionData]
    /\ UNCHANGED <<cbVars, registryVars, userEntities, platformConnections>>

\* await entity.initiateConnection(...) threw: rethrown, the route answers 500.
InitiateConnectionRejected(r) ==
    /\ requests[r].pc = "initiateConnection"
    /\ Reply(r, 500, [success |-> FALSE, error |-> "initiateConnection failed"])
    /\ UNCHANGED <<cbVars, registryVars, serverConnections, userEntities, platformConnections>>

\* The route after await setupUserConnectionIfNotExists(userEmail): it reads
\* the stored record back and answers with it.
SetupConnectionRespond(r) ==
    /\ requests[r].pc = "respond"
    /\ requests[r].kind = "setup"
    /\ LET connectionData == MapGet(serverConnections, requests[r].userEmail) IN
        Reply(r, 200,
              IF connectionData = Undefined
              THEN [success |-> TRUE, userEmail |-> requests[r].userEmail,
                    entityId |-> Undefined, connectionId |-> Undefined,
                    redirectUrl |-> Undefined, status |-> "undefined"]
              ELSE [success |-> TRUE, userEmail |-> requests[r].userEmail,
                    entityId |-> connectionData.entityId,
                    connectionId |-> connectionData.connectionId,
                    redirectUrl |-> connectionData.redirectUrl,
                    status |-> connectionData.status])
    /\ UNCHANGED <<cbVars, registryVars, serverConnections, userEntities, platformConnections>>

(***************************************************************************)
(*               THE CONNECTION REGISTRY: class ComposioService             *)
(***************************************************************************)
\* One step of the model's clock: half of the refresh window.
TickMs == 1800 * 1000

\* The window refreshUserConnection sets, and connectUserGoogleAccount's
\* default lifetime: 3600 * 1000 ms.
HourMs == 3600 * 1000

\* The keys the registry is called with; the empty string is one of them.
RegistryEmails == {EmptyEmail, EmailAB}

\* The token pairs the registry is called with: refreshToken?: string is
\* absent, empty or a token.
TokenPairs ==
    {[accessToken |-> "t1", refreshToken |-> UndefinedStr],
     [accessToken |-> "t1", refreshToken |-> ""],
     [accessToken |-> "t2", refreshToken |-> "r1"]}

\* expiresIn?: number, in seconds -- absent or a number.
NoExpiresIn == [given |-> FALSE, seconds |-> 0]
ExpiresIns == {NoExpiresIn} \cup {[given |-> TRUE, seconds |-> n] : n \in {0, 1800, 7200}}

\* JavaScript truthiness of the two optional arguments.
TruthyNumber(x) == x.given /\ x.seconds # 0
TruthyString(x) == x # UndefinedStr /\ x # ""

\* A connection id stamped with the instant the service started instead of
\* the instant of the call.
ConnectionIdNoClock(userEmail, t) ==
    [prefix |-> "conn", userEmail |-> userEmail, at |-> TickMs]

\* `conn_${userEmail}_${Date.now()}`
ConnectionId(userEmail, t) == [prefix |-> "conn", userEmail |-> userEmail, at |-> t]

\* The record connectUserGoogleAccount builds (lines 83-90).
NewUserConnection(userEmail, accessToken, refreshToken, expiresIn, t) ==
    [connectionId |-> ConnectionId(userEmail, t),
     userEmail |-> userEmail,
     accessToken |-> accessToken,
     refreshToken |-> refreshToken,
     expiresAt |-> IF TruthyNumber(expiresIn) THEN t + expiresIn.seconds * 1000 ELSE t + HourMs,
     status |-> "active"]

\* A store that keeps the record an email already has.
StoreIfAbsent(m, userEmail, userConnection) ==
    IF MapHas(m, userEmail) THEN m ELSE MapSet(m, userEmail, userConnection)

\* this.userConnections.set(userEmail, userConnection) of connectUserGoogleAccount.
StoreConnection(m, userEmail, userConnection) == MapSet(m, userEmail, userConnection)

\* An expiry test that still accepts the instant of expiry.
HasUserConnectionInclusive(m, userEmail, t) ==
    LET connection == MapGet(m, userEmail) IN
        IF connection = Undefined THEN FALSE
        ELSE connection.status = "active" /\ connection.expiresAt >= t

\* hasUserConnection: connection?.status === 'active' && connection.expiresAt > Date.now()
HasUserConnection(m, userEmail, t) ==
    LET connection == MapGet(m, userEmail) IN
        IF connection = Undefined THEN FALSE
        ELSE connection.status = "active" /\ connection.expiresAt > t

\* A refresh that also marks the connection active again.
RefreshedReactivated(connection, t) ==
    [connection EXCEPT !.expiresAt = t + HourMs, !.status = "active"]

\* refreshUserConnection's update: connection.expiresAt = Date.now() + (3600 * 1000)
Refreshed(connection, t) == [connection EXCEPT !.expiresAt = t + HourMs]

\* removeUserConnection's update: connection.status = 'revoked'
Revoked(connection) == [connection EXCEPT !.status = "revoked"]

\* The stored status of an email's record, "none" without a record.
StatusOf(m, userEmail) ==
    IF MapHas(m, userEmail) THEN MapGet(m, userEmail).status ELSE "none"

\* Whether the email's stored record is the one a call with these arguments
\* left behind at instant `at` (same tokens, same lifetime, still active).
LeftBy(m, userEmail, accessToken, refreshToken, expiresIn, at) ==
    /\ MapHas(m, userEmail)
    /\ MapGet(m, userEmail) =
          [connectionId |-> MapGet(m, userEmail).connectionId,
           userEmail |-> userEmail,
           accessToken |-> accessToken,
           refreshToken |-> refreshToken,
           expiresAt |-> IF TruthyNumber(expiresIn) THEN at + expiresIn.seconds * 1000
                                                     ELSE at + HourMs,
           status |-> "active"]

\* async connectUserGoogleAccount(userEmail, accessToken, refreshToken?, expiresIn?);
\* last.replaced notes the status of the record the call overwrites, and
\* last.repeated whether that record came from a call with the same arguments.
ConnectUserGoogleAccount(userEmail, accessToken, refreshToken, expiresIn) ==
    /\ ops < MaxOps
    /\ LET userConnection ==
               NewUserConnection(userEmail, accessToken, refreshToken, expiresIn, now) IN
        /\ userConnections' = StoreConnection(userConnections, userEmail, userConnection)
        /\ last' = [op |-> "connectUserGoogleAccount", userEmail |-> userEmail,
                    accessToken |-> accessToken, refreshToken |-> refreshToken,
                    expiresIn |-> expiresIn, result |-> userConnection.connectionId,
                    replaced |-> StatusOf(userConnections, userEmail),
                    repeated |->
                        \E at \in {TickMs * k : k \in 1..(MaxTicks + 1)} :
                            /\ StatusOf(userConnections, userEmail) # "none"
                            /\ MapGet(userConnections, userEmail).connectionId.at = at
                            /\ LeftBy(userConnections, userEmail, accessToken, refreshToken,
                                   expiresIn, at)]
    /\ ops' = ops + 1
    /\ UNCHANGED <<now, cbVars, serverVars>>

\* hasUserConnection(userEmail)
HasUserConnectionCall(userEmail) ==
    /\ ops < MaxOps
    /\ last' = [op |-> "hasUserConnection", userEmail |-> userEmail,
                result |-> HasUserConnection(userConnections, userEmail, now)]
    /\ ops' = ops + 1
    /\ UNCHANGED <<userConnections, now, cbVars, serverVars>>

\* async refreshUserConnection(userEmail)
RefreshUserConnection(userEmail) ==
    /\ ops < MaxOps
    /\ LET connection == MapGet(userConnections, userEmail) IN
        IF connection = Undefined \/ ~TruthyString(connection.refreshToken)
        THEN /\ last' = [op |-> "refreshUserConnection", userEmail |-> userEmail,
                         result |-> FALSE]
             /\ UNCHANGED userConnections
        ELSE /\ userConnections' = MapSet(userConnections, userEmail, Refreshed(connection, now))
             /\ last' = [op |-> "refreshUserConnection", userEmail |-> userEmail,
                         result |-> TRUE]
    /\ ops' = ops + 1
    /\ UNCHANGED <<now, cbVars, serverVars>>

\* async removeUserConnection(userEmail)
RemoveUserConnection(userEmail) ==
    /\ ops < MaxOps
    /\ LET connection == MapGet(userConnections, userEmail) IN
        IF connection = Undefined
        THEN /\ last' = [op |-> "removeUserConnection", userEmail |-> userEmail,
                         result |-> FALSE]
             /\ UNCHANGED userConnections
        ELSE /\ userConnections' = MapSet(userConnections, userEmail, Revoked(connection))
             /\ last' = [op |-> "removeUserConnection", userEmail |-> userEmail,
                         result |-> TRUE]
    /\ ops' = ops + 1
    /\ UNCHANGED <<now, cbVars, serverVars>>

\* Time passes between two calls.
Tick ==
    /\ now < (MaxTicks + 1) * TickMs
    /\ now' = now + TickMs
    /\ last' = [op |-> "tick"]
    /\ UNCHANGED <<userConnections, ops, cbVars, serverVars>>

InitRegistry ==
    /\ userConnections = <<>>
    /\ now = TickMs
    /\ last = [op |-> "none"]
    /\ ops = 0

(***************************************************************************)
(*          THE API SERVER: status checks, send-message, test-connection    *)
(***************************************************************************)
\* The five calendar actions getUserTools asks the platform for.
NumTools == 5

\* Object.keys(tools).length of what toolset.getTools resolves with: the
\* platform decides, the server only tests for "none".
ToolCounts == {0, NumTools}

\* What the k-th generateText call of request r resolves with.
GenerateTextOutput(r, k) ==
    [text |-> [by |-> r, call |-> k, part |-> "text"],
     toolCalls |-> [by |-> r, call |-> k, part |-> "toolCalls"],
     toolResults |-> [by |-> r, call |-> k, part |-> "toolResults"]]

\* The status check's write with the stored record updated in place of the
\* record it read.
PromotedStored(m, userEmail, connectionData) ==
    MapSet(m, userEmail, [MapGet(m, userEmail) EXCEPT !.status = "active"])

\* connectionData.status = 'active'; userConnections.set(userEmail, connectionData)
Promoted(m, userEmail, connectionData) ==
    MapSet(m, userEmail, [connectionData EXCEPT !.status = "active"])

\* checkConnectionStatus(userEmail) up to its await: both maps are read; with
\* either entry missing it returns not_found, otherwise getUserTools asks the
\* platform for the entity's tools.
CheckConnectionStatus(r) ==
    LET userEmail == requests[r].userEmail
        connectionData == MapGet(serverConnections, userEmail)
        entityId == MapGet(userEntities, userEmail) IN
      IF connectionData = Undefined \/ ~MapHas(userEntities, userEmail) \/ entityId = <<>>
      THEN requests' = [requests EXCEPT ![r].pc = "statusKnown",
                                        ![r].connectionStatus = "not_found"]
      ELSE requests' = [requests EXCEPT ![r].pc = "checkTools",
                                        ![r].connectionData = connectionData,
                                        ![r].entityId = entityId]

\* POST /api/ai/send-message, from the route's start to its first await.
SendMessageRoute(r) ==
    /\ requests[r].pc = "received"
    /\ requests[r].kind = "send"
    /\ IF ~TruthyString(requests[r].message)
       THEN Reply(r, 400, [success |-> FALSE, error |-> "Message is required"])
       ELSE IF requests[r].userEmail = EmptyEmail
       THEN Reply(r, 400, [success |-> FALSE, error |-> "User email is required"])
       ELSE CheckConnectionStatus(r)
    /\ UNCHANGED <<cbVars, registryVars, serverConnections, userEntities, platformConnections>>

\* POST /api/composio/test-connection, from the route's start to its first await.
TestConnectionRoute(r) ==
    /\ requests[r].pc = "received"
    /\ requests[r].kind = "test"
    /\ IF requests[r].userEmail = EmptyEmail
       THEN Reply(r, 400, [success |-> FALSE, error |-> "userEmail is required"])
       ELSE CheckConnectionStatus(r)
    /\ UNCHANGED <<cbVars, registryVars, serverConnections, userEntities, platformConnections>>

\* checkConnectionStatus after await getUserTools(userEmail) returned n tools:
\* with tools the record read before the await is marked active and stored.
CheckToolsResolved(r, n) ==
    /\ requests[r].pc = "checkTools"
    /\ IF n > 0
       THEN /\ serverConnections' =
                 Promoted(serverConnections, requests[r].userEmail,
                          requests[r].connectionData)
            /\ requests' = [requests EXCEPT
                               ![r].pc = "statusKnown",
                               ![r].connectionStatus = "active",
                               ![r].tools = n,
                               ![r].wrote =
                                   [requests[r].connectionData EXCEPT !.status = "active"]]
       ELSE /\ requests' = [requests EXCEPT ![r].pc = "statusKnown",
                                            ![r].connectionStatus = "pending",
                                            ![r].tools = n]
            /\ UNCHANGED serverConnections
    /\ UNCHANGED <<cbVars, registryVars, userEntities, platformConnections>>

\* checkConnectionStatus after await getUserTools(userEmail) threw: the catch
\* returns status 'error'.
CheckToolsRejected(r) ==
    /\ requests[r].pc = "checkTools"
    /\ requests' = [requests EXCEPT ![r].pc = "statusKnown",
                                    ![r].connectionStatus = "error"]
    /\ UNCHANGED <<cbVars, registryVars, serverConnections, userEntities, platformConnections>>

\* A route that goes on to the tools and the LLM whatever the status check
\* returned.
SendMessageAfterStatusEager(r) ==
    /\ requests[r].pc = "statusKnown"
    /\ requests[r].kind = "send"
    /\ requests' = [requests EXCEPT ![r].pc = "getTools"]
    /\ UNCHANGED <<cbVars, registryVars, serverConnections, userEntities, platformConnections>>

\* send-message after await checkConnectionStatus(userEmail): the three
\* short-circuit replies, or the second getUserTools of the request.
SendMessageAfterStatus(r) ==
    /\ requests[r].pc = "statusKnown"
    /\ requests[r].kind = "send"
    /\ LET userEmail == requests[r].userEmail
           connectionStatus == requests[r].connectionStatus
           connectionData == MapGet(serverConnections, userEmail) IN
        IF connectionStatus = "not_found"
        THEN Reply(r, 200, [success |-> TRUE, needsConnection |-> TRUE,
                            redirectUrl |-> Undefined, userEmail |-> userEmail])
        ELSE IF connectionStatus = "pending"
        THEN Reply(r, 200, [success |-> TRUE, needsConnection |-> TRUE,
                            redirectUrl |-> IF connectionData = Undefined THEN Undefined
                                            ELSE connectionData.redirectUrl,
                            userEmail |-> userEmail])
        ELSE IF connectionStatus = "error"
        THEN Reply(r, 200, [success |-> TRUE, needsConnection |-> TRUE,
                            redirectUrl |-> Undefined, userEmail |-> userEmail])
        ELSE IF ~MapHas(userEntities, userEmail) \/ MapGet(userEntities, userEmail) = <<>>
        THEN Reply(r, 500, [success |-> FALSE, error |-> "No entity found for user"])
        ELSE requests' = [requests EXCEPT ![r].pc = "getTools",
                                          ![r].entityId = MapGet(userEntities, userEmail)]
    /\ UNCHANGED <<cbVars, registryVars, serverConnections, userEntities, platformConnections>>

\* test-connection after await checkConnectionStatus(userEmail): both maps
\* are read again for the answer.
TestConnectionRespond(r) ==
    /\ requests[r].pc = "statusKnown"
    /\ requests[r].kind = "test"
    /\ LET userEmail == requests[r].userEmail
           connectionData == MapGet(serverConnections, userEmail) IN
        Reply(r, 200,
              [success |-> requests[r].connectionStatus = "active",
               userEmail |-> userEmail,
               entityId |-> IF MapHas(userEntities, userEmail)
                            THEN [id |-> MapGet(userEntities, userEmail)]
                            ELSE Undefined,
               connectionId |-> IF connectionData = Undefined THEN Undefined
                                ELSE connectionData.connectionId,
               connectionStatus |-> requests[r].connectionStatus,
               toolsAvailable |-> requests[r].tools])
    /\ UNCHANGED <<cbVars, registryVars, serverConnections, userEntities, platformConnections>>

\* send-message after await getUserTools(userEmail) returned n tools: the
\* prompt is built and the first generateText call goes out with the tools.
GetToolsResolved(r, n) ==
    /\ requests[r].pc = "getTools"
    /\ requests' = [requests EXCEPT
                       ![r].pc = "generateText",
                       ![r].tools = n,
                       ![r].llm = Append(@, [tools |-> n, prompt |-> "request",
                                             maxToolRoundtrips |-> 5])]
    /\ UNCHANGED <<cbVars, registryVars, serverConnections, userEntities, platformConnections>>

\* send-message after await getUserTools(userEmail) threw: the route's catch
\* answers 500.
GetToolsRejected(r) ==
    /\ requests[r].pc = "getTools"
    /\ Reply(r, 500, [success |-> FALSE, error |-> "getTools failed"])
    /\ UNCHANGED <<cbVars, registryVars, serverConnections, userEntities, platformConnections>>

\* The first generateText returned: the summarising generateText call goes
\* out, without tools, quoting the first call's toolCalls and toolResults.
GenerateTextResolved(r) ==
    /\ requests[r].pc = "generateText"
    /\ LET output == GenerateTextOutput(r, Len(requests[r].llm)) IN
        requests' = [requests EXCEPT
                        ![r].pc = "summarise",
                        ![r].output = output,
                        ![r].llm = Append(@, [tools |-> 0,
                                              prompt |-> [toolCalls |-> output.toolCalls,
                                                          toolResults |-> output.toolResults],
                                              maxToolRoundtrips |-> 1])]
    /\ UNCHANGED <<cbVars, registryVars, serverConnections, userEntities, platformConnections>>

\* The first generateText threw: the route's catch answers 500.
GenerateTextRejected(r) ==
    /\ requests[r].pc = "generateText"
    /\ Reply(r, 500, [success |-> FALSE, error |-> "generateText failed"])
    /\ UNCHANGED <<cbVars, registryVars, serverConnections, userEntities, platformConnections>>

\* An answer that carries the summarising call's own toolCalls and toolResults.
SummaryResolvedOwnCalls(r) ==
    /\ requests[r].pc = "summarise"
    /\ LET finalOutput == GenerateTextOutput(r, Len(requests[r].llm)) IN
        Reply(r, 200, [success |-> TRUE,
                       message |-> finalOutput.text,
                       toolCalls |-> finalOutput.toolCalls,
                       toolResults |-> finalOutput.toolResults,
                       userEmail |-> requests[r].userEmail])
    /\ UNCHANGED <<cbVars, registryVars, serverConnections, userEntities, platformConnections>>

\* The summarising generateText returned: the answer carries its text and the
\* first call's toolCalls and toolResults.
SummaryResolved(r) ==
    /\ requests[r].pc = "summarise"
    /\ LET output == requests[r].output
           finalOutput == GenerateTextOutput(r, Len(requests[r].llm)) IN
        Reply(r, 200, [success |-> TRUE,
                       message |-> finalOutput.text,
                       toolCalls |-> output.toolCalls,
                       toolResults |-> output.toolResults,
                       userEmail |-> requests[r].userEmail])
    /\ UNCHANGED <<cbVars, registryVars, serverConnections, userEntities, platformConnections>>

\* The summarising generateText threw: the route's catch answers 500.
SummaryRejected(r) ==
    /\ requests[r].pc = "summarise"
    /\ Reply(r, 500, [success |-> FALSE, error |-> "generateText failed"])
    /\ UNCHANGED <<cbVars, registryVars, serverConnections, userEntities, platformConnections>>

\* A client posts a request: the lowest free slot holds it.
Post(kind, userEmail, message) ==
    /\ \E r \in 1..MaxRequests :
        /\ requests[r].pc = "free"
        /\ \A q \in 1..(r-1) : requests[q].pc # "free"
        /\ requests' = [requests EXCEPT ![r] =
                           [FreeRequest EXCEPT !.kind = kind, !.userEmail = userEmail,
                                               !.message = message, !.pc = "received"]]
    /\ UNCHANGED <<cbVars, registryVars, serverConnections, userEntities, platformConnections>>

\* req.body of the three routes.
Messages == {UndefinedStr, "hi"}

PostSetupConnection(userEmail) == Post("setup", userEmail, UndefinedStr)

PostSendMessage(userEmail, message) == Post("send", userEmail, message)

PostTestConnection(userEmail) == Post("test", userEmail, UndefinedStr)

\* The user visits the redirectUrl of an initiated connection and completes
\* the authorization: from then on the platform holds a connection for the
\* entity.
CompleteAuthorization(entityId) ==
    /\ entityId \notin platformConnections
    /\ \E r \in 1..MaxRequests :
          /\ requests[r].wrote # Undefined
          /\ requests[r].wrote.entityId = entityId
          /\ requests[r].wrote.redirectUrl # Undefined
    /\ platformConnections' = platformConnections \cup {entityId}
    /\ UNCHANGED <<cbVars, registryVars, serverConnections, userEntities, requests>>

(***************************************************************************)
(*       The callback flow: one redirect, with the server behind it         *)
(***************************************************************************)
InitServer ==
    /\ serverConnections = <<>>
    /\ userEntities = <<>>
    /\ requests = [r \in 1..MaxRequests |-> FreeRequest]
    /\ platformConnections \in SUBSET EntityIds

InitCallback ==
    /\ url \in Urls
    /\ appUserEmail \in Emails \cup {EmptyEmail}
    /\ cbPc = "mounted"
    /\ callbackState = [status |-> "processing", message |-> "Processing authentication...",
                        details |-> ""]
    /\ statusLog = <<"processing">>
    /\ exchangeCalls = 0
    /\ exchangeOutcome = "none"
    /\ bridgeCalls = 0
    /\ bridgeReq = 0
    /\ bridgeOutcome = "none"
    /\ chatMessages = <<>>
    /\ redirectDelay = 0

Init == InitCallback /\ InitServer /\ InitRegistry

ServerStep(r) ==
    \/ SetupConnectionRoute(r)
    \/ GetEntityResolved(r)
    \/ GetEntityRejected(r)
    \/ GetConnectionResolved(r)
    \/ GetConnectionRejected(r)
    \/ InitiateConnectionResolved(r)
    \/ InitiateConnectionRejected(r)
    \/ SetupConnectionRespond(r)

CallbackStep ==
    \/ HandleOAuthCallback
    \/ ExchangeResolved
    \/ ExchangeRejected
    \/ BridgeResolved
    \/ BridgeRejected
    \/ RedirectTimer

Next ==
    \/ CallbackStep
    \/ \E r \in 1..MaxRequests : ServerStep(r)

Spec == Init /\ [][Next]_vars

\* The registry on its own: the component has not mounted, the server is idle.
InitRegistryOnly ==
    /\ InitRegistry
    /\ InitCallback
    /\ url = [code |-> "ABC", state |-> "XYZ"]
    /\ appUserEmail = EmailAB
    /\ InitServer
    /\ platformConnections = {}

NextRegistry ==
    \/ \E e \in RegistryEmails, tk \in TokenPairs, x \in ExpiresIns :
          ConnectUserGoogleAccount(e, tk.accessToken, tk.refreshToken, x)
    \/ \E e \in RegistryEmails : HasUserConnectionCall(e)
    \/ \E e \in RegistryEmails : RefreshUserConnection(e)
    \/ \E e \in RegistryEmails : RemoveUserConnection(e)
    \/ Tick

SpecRegistry == InitRegistryOnly /\ [][NextRegistry]_vars

\* The steps of a status check, of send-message and of test-connection.
ChatStep(r) ==
    \/ SendMessageRoute(r)
    \/ TestConnectionRoute(r)
    \/ \E n \in ToolCounts : CheckToolsResolved(r, n)
    \/ CheckToolsRejected(r)
    \/ SendMessageAfterStatus(r)
    \/ TestConnectionRespond(r)
    \/ \E n \in ToolCounts : GetToolsResolved(r, n)
    \/ GetToolsRejected(r)
    \/ GenerateTextResolved(r)
    \/ GenerateTextRejected(r)
    \/ SummaryResolved(r)
    \/ SummaryRejected(r)

\* The server on its own, with clients posting to its three routes; the
\* component has not mounted and the browser registry is idle.
InitServerOnly ==
    /\ InitRegistry
    /\ InitCallback
    /\ url = [code |-> "ABC", state |-> "XYZ"]
    /\ appUserEmail = EmailAB
    /\ InitServer

ServerEmails == Emails \cup {EmptyEmail}

NextServer ==
    \/ \E e \in ServerEmails : PostSetupConnection(e)
    \/ \E e \in ServerEmails, msg \in Messages : PostSendMessage(e, msg)
    \/ \E e \in ServerEmails : PostTestConnection(e)
    \/ \E r \in 1..MaxRequests : ServerStep(r)
    \/ \E r \in 1..MaxRequests : ChatStep(r)
    \/ \E id \in EntityIds : CompleteAuthorization(id)

SpecServer == InitServerOnly /\ [][NextServer]_vars

\* The registry under repeated connects only: nothing but the clock acts
\* between two calls of connectUserGoogleAccount.
NextUpsert ==
    \/ \E e \in RegistryEmails, tk \in TokenPairs, x \in ExpiresIns :
          ConnectUserGoogleAccount(e, tk.accessToken, tk.refreshToken, x)
    \/ Tick

SpecUpsert == InitRegistryOnly /\ [][NextUpsert]_vars

\* The event loop runs every continuation that is ready, and every awaited
\* call settles (resolves or rejects): each step that stays enabled is taken.
FairSpec ==
    /\ Spec
    /\ WF_vars(CallbackStep)
    /\ \A r \in 1..MaxRequests : WF_vars(ServerStep(r))

(***************************************************************************)
(*                     PROPERTIES OF THE CALLBACK HANDLER                   *)
(***************************************************************************)
Terminal == {"success", "error"}

Finished == cbPc \in {"done", "redirected"}

MissingParameter == url.code = Absent \/ url.state = Absent

LastStatus == statusLog[Len(statusLog)]

\* C1: for a redirect URL without `code` or without `state`, the run ends in
\* status 'error', 'success' is never set, and neither the token exchange
\* nor the bridge notification is called.
C1_MissingParameterEndsInError ==
    MissingParameter =>
        /\ cbPc # "mounted" => (Finished /\ callbackState.status = "error")
        /\ \A i \in 1..Len(statusLog) : statusLog[i] # "success"
        /\ exchangeCalls = 0
        /\ bridgeCalls = 0

C1_Witness ==
    /\ url.code = "ABC"
    /\ url.state = Absent
    /\ cbPc = "done"
    /\ callbackState.status = "error"

\* C2: the status starts as 'processing'; every status set before the last
\* one is 'processing', so a terminal status ('success' or 'error') is never
\* followed by another status; the displayed status is the last one set.
C2_StatusSequence ==
    /\ statusLog[1] = "processing"
    /\ \A i \in 1..(Len(statusLog) - 1) : statusLog[i] = "processing"
    /\ LastStatus \in Terminal \cup {"processing"}
    /\ callbackState.status = LastStatus

C2_Witness ==
    /\ Len(statusLog) >= 5
    /\ callbackState.status = "success"
    /\ bridgeCalls = 1

\* C3 as stated: after a successful token exchange the bridge notification
\* is attempted (in every run), and the run ends in 'success', never 'error'.
C3_BridgeAlwaysAttempted ==
    (exchangeOutcome = "resolved" /\ Finished) =>
        /\ bridgeCalls = 1
        /\ callbackState.status = "success"

\* C3 amended: after a successful token exchange the bridge notification is
\* attempted exactly when the app context holds a user email (once), and the
\* run ends in 'success', never 'error', whether the notification succeeded,
\* failed or was skipped.
C3_BridgeFailureSwallowed ==
    exchangeOutcome = "resolved" =>
        /\ bridgeCalls = (IF appUserEmail # EmptyEmail THEN 1 ELSE 0)
        /\ callbackState.status # "error"
        /\ \A i \in 1..Len(statusLog) : statusLog[i] # "error"
        /\ Finished => callbackState.status = "success"
        /\ bridgeOutcome # "none" => Finished

C3_Witness ==
    /\ exchangeOutcome = "resolved"
    /\ bridgeCalls = 1
    /\ bridgeOutcome = "failed"
    /\ callbackState.status = "success"

\* C4: a failed token exchange ends the run in 'error' at once, the bridge
\* notification is not attempted, and the exchange is called at most once
\* in a run.
C4_ExchangeFailureIsFinal ==
    /\ exchangeCalls <= 1
    /\ exchangeOutcome = "rejected" =>
          /\ Finished
          /\ callbackState.status = "error"
          /\ bridgeCalls = 0
          /\ bridgeOutcome = "none"
          /\ \A r \in 1..MaxRequests : requests[r].pc = "free"

C4_Witness ==
    /\ exchangeOutcome = "rejected"
    /\ exchangeCalls = 1
    /\ callbackState.status = "error"
    /\ cbPc = "redirected"

\* C5: every run eventually reaches a terminal status.
C5_EventuallyTerminal == <>(callbackState.status \in Terminal)

C5_Witness ==
    /\ callbackState.status \in Terminal
    /\ bridgeReq # 0
    /\ requests[bridgeReq].http = 500

\* A registry holds exactly one record for the email, and it is active.
OneActiveRecord(m, userEmail) ==
    /\ MapCount(m, userEmail) = 1
    /\ MapGet(m, userEmail).status = "active"

\* C6: when a run has reached 'success', exactly one registry record exists
\* for the user's email, with status 'active' (in the service's registry or
\* in the server's).
C6_SuccessLeavesActiveRecord ==
    (callbackState.status = "success" /\ appUserEmail # EmptyEmail) =>
        \/ OneActiveRecord(userConnections, appUserEmail)
        \/ OneActiveRecord(serverConnections, appUserEmail)

(***************************************************************************)
(*                        PROPERTIES OF THE REGISTRY                        *)
(***************************************************************************)
\* Some stored record for the email is active and expires after instant t.
ActiveRecordExists(m, userEmail, t) ==
    \E i \in 1..Len(m) :
        /\ m[i].key = userEmail
        /\ m[i].value.status = "active"
        /\ m[i].value.expiresAt > t

\* C7: hasUserConnection(email) returns true exactly when a record exists for
\* the email, its status is 'active' and its expiresAt is strictly greater
\* than the current time; the call changes neither the registry nor the clock.
C7_IsActiveIff ==
    [][last'.op = "hasUserConnection" =>
          /\ last'.result = ActiveRecordExists(userConnections, last'.userEmail, now)
          /\ userConnections' = userConnections
          /\ now' = now]_vars

\* The call is made at the very instant of expiry and answers false.
C7_Witness ==
    /\ last.op = "hasUserConnection"
    /\ last.result = FALSE
    /\ MapHas(userConnections, last.userEmail)
    /\ MapGet(userConnections, last.userEmail).status = "active"
    /\ MapGet(userConnections, last.userEmail).expiresAt = now

IsRevoked(m, userEmail) == MapHas(m, userEmail) /\ MapGet(m, userEmail).status = "revoked"

\* C8: removeUserConnection(email) returns true and marks the record revoked
\* when one exists, and returns false and changes nothing when none exists;
\* a revoked record is not active, whatever its expiresAt, and it stays
\* revoked through every later call except a connectUserGoogleAccount for
\* the same email.
C8_RevokeIsSticky ==
    [][/\ last'.op = "removeUserConnection" =>
            /\ last'.result = MapHas(userConnections, last'.userEmail)
            /\ MapHas(userConnections, last'.userEmail) =>
                  IsRevoked(userConnections', last'.userEmail)
            /\ ~MapHas(userConnections, last'.userEmail) =>
                  userConnections' = userConnections
       /\ \A e \in RegistryEmails :
            /\ IsRevoked(userConnections', e) => ~HasUserConnection(userConnections', e, now')
            /\ (/\ IsRevoked(userConnections, e)
                /\ ~(last'.op = "connectUserGoogleAccount" /\ last'.userEmail = e))
                  => IsRevoked(userConnections', e)]_vars

\* A revoked record has just been refreshed: its expiry is in the future.
C8_Witness ==
    /\ last.op = "refreshUserConnection"
    /\ last.result = TRUE
    /\ IsRevoked(userConnections, last.userEmail)
    /\ MapGet(userConnections, last.userEmail).expiresAt > now

\* C9: when refreshUserConnection(email), for a non-empty email, returns
\* true, the record's expiresAt is not earlier than it was before the call
\* (the claim says: later).
C9_RefreshNeverShortens ==
    [][(/\ last'.op = "refreshUserConnection"
        /\ last'.userEmail # EmptyEmail
        /\ last'.result = TRUE) =>
          MapGet(userConnections', last'.userEmail).expiresAt
              >= MapGet(userConnections, last'.userEmail).expiresAt]_vars

\* The expiry connectUserGoogleAccount computes at instant t.
ExpiryOf(expiresIn, t) ==
    IF expiresIn.given /\ expiresIn.seconds # 0 THEN t + expiresIn.seconds * 1000 ELSE t + HourMs

\* C10: the registry never holds two records for one email; after
\* connectUserGoogleAccount the email's single record carries the call's
\* tokens, a fresh expiry and status 'active', whatever record was there
\* before, the registry has not grown if there was one, and the records of
\* the other emails are untouched.
C10_UpsertReplaces ==
    [][/\ \A e \in RegistryEmails : MapCount(userConnections', e) <= 1
       /\ last'.op = "connectUserGoogleAccount" =>
            LET e == last'.userEmail
                rec == MapGet(userConnections', e) IN
              /\ MapCount(userConnections', e) = 1
              /\ rec.userEmail = e
              /\ rec.accessToken = last'.accessToken
              /\ rec.refreshToken = last'.refreshToken
              /\ rec.expiresAt = ExpiryOf(last'.expiresIn, now)
              /\ rec.status = "active"
              /\ rec.connectionId = last'.result
              /\ MapHas(userConnections, e) => Len(userConnections') = Len(userConnections)
              /\ \A o \in RegistryEmails \ {e} :
                    MapGet(userConnections', o) = MapGet(userConnections, o)]_vars

\* A revoked record has just been overwritten with other tokens.
C10_Witness ==
    /\ last.op = "connectUserGoogleAccount"
    /\ last.replaced = "revoked"
    /\ last.accessToken = "t2"
    /\ last.userEmail = EmailAB
    /\ MapCount(userConnections, last.userEmail) = 1
    /\ MapGet(userConnections, last.userEmail).accessToken = "t2"
    /\ MapGet(userConnections, last.userEmail).status = "active"

\* The stored record of the email is what an earlier call with the arguments
\* of the call just made (last') left behind; `at` is that call's instant.
RepeatsCall(at) ==
    /\ last'.op = "connectUserGoogleAccount"
    /\ MapHas(userConnections, last'.userEmail)
    /\ at = MapGet(userConnections, last'.userEmail).connectionId.at
    /\ LeftBy(userConnections, last'.userEmail, last'.accessToken, last'.refreshToken,
              last'.expiresIn, at)

CallInstants == {TickMs * k : k \in 1..(MaxTicks + 1)}

\* C11 as stated: a second connectUserGoogleAccount with the same email and
\* tokens leaves the registry as the first call left it (connectionId and
\* expiresAt included) and returns the same connection id.
C11_UpsertIdempotent ==
    [][\A at \in CallInstants : RepeatsCall(at) =>
          /\ userConnections' = userConnections
          /\ last'.result = MapGet(userConnections, last'.userEmail).connectionId]_vars

\* C11 amended: a second call with the same email and tokens leaves one
\* record for the email with the same tokens and status 'active' and does
\* not grow the registry; connectionId (also the return value) and expiresAt
\* are taken from the clock of the second call, so registry and result are
\* those of the first call exactly when the clock has not advanced between
\* the two calls, and otherwise the id differs and the expiry is later by
\* the time that has passed.
C11_UpsertRenewsIdAndExpiry ==
    [][\A at \in CallInstants : RepeatsCall(at) =>
          LET e == last'.userEmail
              old == MapGet(userConnections, e)
              new == MapGet(userConnections', e) IN
            /\ Len(userConnections') = Len(userConnections)
            /\ MapCount(userConnections', e) = 1
            /\ new.accessToken = old.accessToken
            /\ new.refreshToken = old.refreshToken
            /\ new.status = "active"
            /\ new.connectionId = last'.result
            /\ new.connectionId.at = now
            /\ new.expiresAt - old.expiresAt = now - at
            /\ (now = at) <=> (userConnections' = userConnections)
            /\ (now = at) <=> (last'.result = old.connectionId)]_vars

\* The same call has been made again after the clock advanced.
C11_Witness ==
    /\ last.op = "connectUserGoogleAccount"
    /\ last.repeated
    /\ last.userEmail = EmailAB
    /\ last.result.at = now
    /\ now > TickMs
    /\ Len(userConnections) = 1

\* C12: no record is ever stored under the empty email (a call with an empty
\* userEmail fails and leaves the registry unchanged).
C12_NoRecordUnderEmptyEmail ==
    ~MapHas(userConnections, EmptyEmail)

\* A finished setup-connection request for a user.
SetupDone(r) ==
    /\ requests[r].kind = "setup"
    /\ requests[r].pc = "done"
    /\ requests[r].userEmail # EmptyEmail

\* The answer of request r carries the fields of record c.
Returned(r, c) ==
    /\ requests[r].http = 200
    /\ requests[r].body.status = c.status
    /\ requests[r].body.connectionId = c.connectionId
    /\ requests[r].body.redirectUrl = c.redirectUrl

SendValid(r) ==
    /\ requests[r].kind = "send"
    /\ TruthyString(requests[r].message)
    /\ requests[r].userEmail # EmptyEmail

ShortCircuits == {"not_found", "pending", "error"}

\* C14: send-message calls the LLM only with message and userEmail present
\* and a status check that returned 'active'; a request missing either field
\* is answered 400; a request whose status check returned not_found (as it
\* does whenever the user has no record), pending or error is answered with
\* needsConnection = true; none of these requests makes an LLM call.
C14_LlmOnlyWhenActive ==
    \A r \in 1..MaxRequests : requests[r].kind = "send" =>
        /\ requests[r].llm # <<>> =>
              SendValid(r) /\ requests[r].connectionStatus = "active"
        /\ requests[r].pc = "done" /\ ~SendValid(r) =>
              requests[r].http = 400 /\ requests[r].llm = <<>>
        /\ requests[r].pc = "done" /\ requests[r].connectionStatus \in ShortCircuits =>
              /\ requests[r].http = 200
              /\ requests[r].body.needsConnection
              /\ requests[r].llm = <<>>
        /\ SendValid(r) /\ requests[r].pc \notin {"received", "checkTools"} =>
              (requests[r].connectionData = Undefined
                  <=> requests[r].connectionStatus = "not_found")

\* One send-message was refused for a missing field, another was answered
\* needsConnection on a pending status.
C14_Witness ==
    \E r1, r2 \in 1..MaxRequests :
        /\ requests[r1].kind = "send" /\ requests[r1].pc = "done"
        /\ requests[r1].http = 400
        /\ requests[r2].kind = "send" /\ requests[r2].pc = "done"
        /\ requests[r2].connectionStatus = "pending"
        /\ requests[r2].body.needsConnection

\* C15: a send-message whose status check returned 'active' calls the LLM at
\* most twice, first with the user's tools, then, once the first call has
\* returned, a summarising call quoting its toolCalls and toolResults; the
\* 200 answer carries the second call's text and the first call's toolCalls
\* and toolResults; when the first call fails no second call is made and
\* the request is answered 500.
C15_TwoLlmCallsInOrder ==
    \A r \in 1..MaxRequests : requests[r].kind = "send" =>
        LET q == requests[r] IN
          /\ Len(q.llm) <= 2
          /\ Len(q.llm) >= 1 =>
                /\ q.llm[1].tools = q.tools
                /\ q.llm[1].prompt = "request"
                /\ q.pc \in {"generateText", "summarise", "done"}
          /\ Len(q.llm) = 1 => q.output = Undefined
          /\ Len(q.llm) = 2 =>
                /\ q.output = GenerateTextOutput(r, 1)
                /\ q.llm[2].tools = 0
                /\ q.llm[2].prompt = [toolCalls |-> q.output.toolCalls,
                                      toolResults |-> q.output.toolResults]
                /\ q.pc \in {"summarise", "done"}
          /\ q.pc = "done" /\ q.connectionStatus = "active" =>
                /\ q.http \in {200, 500}
                /\ q.http = 200 =>
                      /\ Len(q.llm) = 2
                      /\ q.body.message = GenerateTextOutput(r, 2).text
                      /\ q.body.toolCalls = GenerateTextOutput(r, 1).toolCalls
                      /\ q.body.toolResults = GenerateTextOutput(r, 1).toolResults
                /\ Len(q.llm) = 1 => q.http = 500

\* A send-message has been answered after both LLM calls, another one has
\* ended after its first LLM call failed.
C15_Witness ==
    \E r1, r2 \in 1..MaxRequests :
        /\ requests[r1].kind = "send" /\ requests[r1].pc = "done"
        /\ requests[r1].http = 200 /\ Len(requests[r1].llm) = 2
        /\ requests[r2].kind = "send" /\ requests[r2].pc = "done"
        /\ requests[r2].http = 500 /\ Len(requests[r2].llm) = 1

\* The entity ids the server has derived so far: those stored in
\* userEntities and those held by the handlers.
DerivedEntityIds ==
    {userEntities[i].value : i \in 1..Len(userEntities)}
        \cup {requests[r].entityId : r \in {q \in 1..MaxRequests : requests[q].entityId # <<>>}}

\* C16 as stated: every entityId consists only of lower-case letters and
\* digits.
C16_EntityIdLowerAlphaNumeric ==
    \A id \in DerivedEntityIds :
        \A i \in 1..Len(id) : id[i] \in Range(LowerLetters) \cup Range(Digits)

\* C16 amended: the entityId depends on nothing but the userEmail (every
\* request for an email holds the id stored for that email, whatever was
\* stored or requested before), it has the email's length, and it consists
\* only of lower-case letters, digits and '_', the character that stands in
\* for everything else.
C16_EntityIdDeterministicSanitized ==
    /\ \A id \in DerivedEntityIds :
          \A i \in 1..Len(id) : id[i] \in Range(LowerLetters) \cup Range(Digits) \cup {"_"}
    /\ \A i \in 1..Len(userEntities) :
          /\ Len(userEntities[i].value) = Len(userEntities[i].key)
          /\ MapCount(userEntities, userEntities[i].key) = 1
    /\ \A r \in 1..MaxRequests : requests[r].entityId # <<>> =>
          /\ MapHas(userEntities, requests[r].userEmail)
          /\ requests[r].entityId = MapGet(userEntities, requests[r].userEmail)

\* Two setup-connection requests have derived the id of an email with an
\* upper-case letter and a dot, after another email had been stored.
C16_Witness ==
    /\ Len(userEntities) = 2
    /\ \E r1, r2 \in 1..MaxRequests :
          /\ r1 # r2
          /\ requests[r1].userEmail = EmailAdotB /\ requests[r2].userEmail = EmailAdotB
          /\ requests[r1].kind = "setup" /\ requests[r2].kind = "setup"
          /\ requests[r1].entityId = <<"a", "_", "b">>
          /\ requests[r2].entityId = <<"a", "_", "b">>

\* C17: two different userEmails that have set up a connection are mapped
\* to different entityIds.
C17_DistinctEmailsDistinctEntities ==
    \A i, j \in 1..Len(userEntities) :
        userEntities[i].key # userEntities[j].key =>
            userEntities[i].value # userEntities[j].value

\* Request r has stored a record in this step.
Writes(r) == requests'[r].wrote # requests[r].wrote

\* C18: every write to the server's registry replaces the whole record of
\* the email: after any step the registry holds at most one record per
\* email, a record changes only in a step in which a request for that email
\* writes, and after the write the record is, field for field, the one that
\* request wrote; so when requests for one email interleave, the record left
\* is the one of the last write.
C18_LastWriteWins ==
    [][/\ \A e \in Emails :
            /\ MapCount(serverConnections', e) <= 1
            /\ MapGet(serverConnections', e) # MapGet(serverConnections, e) =>
                  \E r \in 1..MaxRequests : Writes(r) /\ requests[r].userEmail = e
       /\ \A r \in 1..MaxRequests : Writes(r) =>
            /\ MapCount(serverConnections', requests[r].userEmail) = 1
            /\ MapGet(serverConnections', requests[r].userEmail) = requests'[r].wrote]_vars

\* Two setup-connection requests for one email have interleaved: the one
\* that arrived first wrote last, and its record is the one stored.
C18_Witness ==
    \E r1, r2 \in 1..MaxRequests :
        /\ r1 < r2
        /\ requests[r1].userEmail = requests[r2].userEmail
        /\ requests[r1].pc = "done" /\ requests[r2].pc = "done"
        /\ requests[r1].wrote # Undefined /\ requests[r2].wrote # Undefined
        /\ requests[r1].wrote # requests[r2].wrote
        /\ requests[r1].wrote.connectionId # requests[r2].wrote.connectionId
        /\ MapGet(serverConnections, requests[r1].userEmail) = requests[r1].wrote

\* Request r ends the await of its status check in this step.
CheckReturns(r) ==
    /\ requests[r].pc = "checkTools"
    /\ requests'[r].pc = "statusKnown"

\* C19: a status check never writes back a record that a setup-connection
\* has replaced while the check was awaiting its tools: the connectionId
\* stored for the email is the same before and after the check's step.
C19_CheckKeepsConnectionId ==
    [][\A r \in 1..MaxRequests : CheckReturns(r) =>
          MapGet(serverConnections', requests[r].userEmail).connectionId
              = MapGet(serverConnections, requests[r].userEmail).connectionId]_vars

\* The record stored for email e turns from 'pending' to 'active' in this step.
Promotes(e) ==
    /\ StatusOf(serverConnections, e) = "pending"
    /\ StatusOf(serverConnections', e) = "active"

\* Request r stores, in this step, the connection its getConnection found.
SetupFinds(r) ==
    /\ requests[r].kind = "setup"
    /\ requests[r].pc = "getConnection"
    /\ requests'[r].pc = "respond"

\* Request r makes its first LLM call in this step.
FirstLlmCall(r) == requests[r].llm = <<>> /\ requests'[r].llm # <<>>

\* C20 as stated: a record stored as 'pending' turns 'active' only when a
\* setup-connection finds an existing connection for the user's entity, never
\* by a status check, and a send-message makes no LLM call for a user whose
\* stored record is 'pending'.
C20_PendingUntilSetupFinds ==
    [][/\ \A e \in Emails : Promotes(e) =>
            \E r \in 1..MaxRequests : SetupFinds(r) /\ requests[r].userEmail = e
       /\ \A r \in 1..MaxRequests : FirstLlmCall(r) =>
            StatusOf(serverConnections, requests[r].userEmail) # "pending"]_vars

\* C21: every userEmail with a record in the server's userConnections has
\* an entry in userEntities, and the record's entityId is that entry; so
\* no request whose status check found a record is ever refused by
\* getUserTools with 'No entity found'.
C21_RecordHasEntity ==
    /\ \A i \in 1..Len(serverConnections) :
          /\ MapHas(userEntities, serverConnections[i].key)
          /\ serverConnections[i].value.entityId
                = MapGet(userEntities, serverConnections[i].key)
    /\ \A r \in 1..MaxRequests :
          /\ requests[r].connectionData # Undefined =>
                /\ MapHas(userEntities, requests[r].userEmail)
                /\ requests[r].connectionData.entityId
                      = MapGet(userEntities, requests[r].userEmail)
          /\ requests[r].http = 500 =>
                requests[r].body.error # "No entity found for user"

\* One user has a record and an entity, another has an entity but no record
\* (the setup failed), and a send-message whose status check found the
\* record has passed its second getUserTools.
C21_Witness ==
    /\ Len(serverConnections) = 1
    /\ Len(userEntities) = 2
    /\ \E r \in 1..MaxRequests :
          /\ requests[r].kind = "send"
          /\ requests[r].connectionData # Undefined
          /\ requests[r].userEmail = serverConnections[1].key
          /\ requests[r].pc = "generateText"

=============================================================================
